---- MODULE Spec2Model ----
(***************************************************************************)
(* Model of the Algo-Trading-Simulator backtesting core:                   *)
(*   strategies/moving_average.py   sma_crossover                          *)
(*   strategies/strategy_template.py strategy_template                     *)
(*   backtester/backtester.py       backtest, max_drawdown                 *)
(*   backtester/metrics.py          calculate_cagr, calculate_sharpe, ...   *)
(*   main.py                        run_backtest                           *)
(*   app.py                         main, run_backtest_ui                  *)
(*   data_handler/data_handler.py   load_data, save_data                   *)
(*                                                                         *)
(* Specifications.  Spec runs the pipeline on a price frame, SpecTrend on  *)
(* a rising one, SpecMetrics calls the metric functions on a series and    *)
(* SpecCache makes a sequence of load_data calls.                          *)
(*                                                                         *)
(* Numbers.  A float is modelled as an exact extended rational <<n, d>>:   *)
(*   d > 0   the rational n/d in lowest terms,                             *)
(*   <<0,0>> NaN (pandas' "undefined"),  <<1,0>> +inf,  <<-1,0>> -inf.     *)
(* Arithmetic follows IEEE-754 for NaN and the infinities; rounding and    *)
(* the sign of zero are not modelled.                                      *)
(*                                                                         *)
(* Frames.  A pandas DataFrame is [n |-> number of rows,                   *)
(* col |-> [column name -> sequence of n values]]; a Series is a sequence. *)
(***************************************************************************)
EXTENDS Integers, Sequences, FiniteSets, TLC

(* ------------------------------ bounds -------------------------------- *)
MaxLen == 3
MaxPrice == 2
MaxWindow == 3
MaxK == 2
MaxTrendLen == 4
MaxTrendPrice == 5
MaxCalls == 3

(* --------------------------- float arithmetic -------------------------- *)
Abs(i) == IF i < 0 THEN -i ELSE i

RECURSIVE GCD(_, _)
GCD(a, b) == IF b = 0 THEN a ELSE GCD(b, a % b)

Sgn(i) == IF i > 0 THEN 1 ELSE IF i < 0 THEN -1 ELSE 0

Norm(n, d) ==
    IF d = 0 THEN <<Sgn(n), 0>>
    ELSE LET g == GCD(Abs(n), Abs(d))
         IN  <<(Sgn(d) * n) \div g, Abs(d) \div g>>

NaN == <<0, 0>>
Inf == <<1, 0>>
Flt(i) == <<i, 1>>
Zero == <<0, 1>>
One == <<1, 1>>

IsNaN(x) == x = NaN
IsInf(x) == x[2] = 0 /\ x[1] # 0

Neg(x) == <<-x[1], x[2]>>

\* x + y over the least common denominator
AddFinite(x, y, g) ==
    Norm(x[1] * (y[2] \div g) + y[1] * (x[2] \div g), (x[2] \div g) * y[2])

Add(x, y) ==
    IF IsNaN(x) \/ IsNaN(y) THEN NaN
    ELSE IF IsInf(x) /\ IsInf(y) THEN (IF x = y THEN x ELSE NaN)
    ELSE IF IsInf(x) THEN x
    ELSE IF IsInf(y) THEN y
    ELSE IF x[2] = y[2] THEN Norm(x[1] + y[1], x[2])
    ELSE AddFinite(x, y, GCD(x[2], y[2]))

Sub(x, y) == Add(x, Neg(y))

Mul(x, y) == Norm(x[1] * y[1], x[2] * y[2])

\* 1/y: 1/0 is +inf, 1/inf is 0
Recip(y) == IF y[1] < 0 THEN <<-y[2], -y[1]>> ELSE <<y[2], y[1]>>

Div(x, y) == Mul(x, Recip(y))

\* x < y, x > y, x == y as floats compare: every comparison with NaN is false
Lt(x, y) ==
    /\ ~IsNaN(x)
    /\ ~IsNaN(y)
    /\ IF IsInf(x) /\ IsInf(y) THEN x[1] < y[1] ELSE x[1] * y[2] < y[1] * x[2]

Gt(x, y) == Lt(y, x)

Eq(x, y) == ~IsNaN(x) /\ ~IsNaN(y) /\ x = y

Le(x, y) == Lt(x, y) \/ Eq(x, y)

(* ------------------------------ Series -------------------------------- *)
\* a Series as a sequence of its values in row order
Series(f) == f \o << >>

\* element-wise operations of pandas Series
SAdd(s, c) == Series([i \in 1..Len(s) |-> Add(s[i], c)])
SSub(s, c) == Series([i \in 1..Len(s) |-> Sub(s[i], c)])
SMul(s, c) == Series([i \in 1..Len(s) |-> Mul(s[i], c)])
SMulS(s, t) == Series([i \in 1..Len(s) |-> Mul(s[i], t[i])])
SDivS(s, t) == Series([i \in 1..Len(s) |-> Div(s[i], t[i])])
SSubS(s, t) == Series([i \in 1..Len(s) |-> Sub(s[i], t[i])])

RECURSIVE SumRange(_, _, _)
SumRange(s, lo, hi) ==
    IF lo > hi THEN Zero ELSE Add(SumRange(s, lo, hi - 1), s[hi])

\* rolling(window=w, min_periods=1): averages the bars seen so far
rolling_mean_partial(s, w) ==
    Series([i \in 1..Len(s) |->
              IF i < w THEN Div(SumRange(s, 1, i), Flt(i))
              ELSE Div(SumRange(s, i - w + 1, i), Flt(w))])

\* Series.rolling(window=w).mean(): undefined until a full window is seen
rolling_mean(s, w) ==
    Series([i \in 1..Len(s) |->
              IF i < w THEN NaN ELSE Div(SumRange(s, i - w + 1, i), Flt(w))])

\* Series.shift(1)
shift(s) == Series([i \in 1..Len(s) |-> IF i = 1 THEN NaN ELSE s[i - 1]])

\* Series.fillna(v)
fillna(s, v) == Series([i \in 1..Len(s) |-> IF IsNaN(s[i]) THEN v ELSE s[i]])

\* Series.pct_change()
pct_change(s) ==
    Series([i \in 1..Len(s) |->
              IF i = 1 THEN NaN ELSE Sub(Div(s[i], s[i - 1]), One)])

\* Series.dropna()
dropna(s) == SelectSeq(s, LAMBDA x : ~IsNaN(x))

RECURSIVE ProdDefined(_, _)
ProdDefined(s, i) ==
    IF i = 0 THEN One
    ELSE IF IsNaN(s[i]) THEN ProdDefined(s, i - 1)
    ELSE Mul(ProdDefined(s, i - 1), s[i])

RECURSIVE ProdAll(_, _)
ProdAll(s, i) == IF i = 0 THEN One ELSE Mul(ProdAll(s, i - 1), s[i])

\* Series.cumprod(skipna=False): an undefined entry makes every later one undefined
cumprod_propagating(s) == Series([i \in 1..Len(s) |-> ProdAll(s, i)])

\* Series.cumprod(): skipna, an undefined entry stays undefined and is skipped
cumprod(s) ==
    Series([i \in 1..Len(s) |-> IF IsNaN(s[i]) THEN NaN ELSE ProdDefined(s, i)])

FMax(x, y) == IF Lt(x, y) THEN y ELSE x
FMin(x, y) == IF Lt(y, x) THEN y ELSE x

RECURSIVE MaxDefined(_, _)
MaxDefined(s, i) ==
    IF i = 0 THEN NaN
    ELSE IF IsNaN(s[i]) THEN MaxDefined(s, i - 1)
    ELSE LET m == MaxDefined(s, i - 1)
         IN  IF IsNaN(m) THEN s[i] ELSE FMax(m, s[i])

\* Series.cummax(): skipna
cummax(s) ==
    Series([i \in 1..Len(s) |-> IF IsNaN(s[i]) THEN NaN ELSE MaxDefined(s, i)])

RECURSIVE MinDefined(_, _)
MinDefined(s, i) ==
    IF i = 0 THEN NaN
    ELSE IF IsNaN(s[i]) THEN MinDefined(s, i - 1)
    ELSE LET m == MinDefined(s, i - 1)
         IN  IF IsNaN(m) THEN s[i] ELSE FMin(m, s[i])

\* Series.min(): skipna, NaN for a series with no defined entry
smin(s) == MinDefined(s, Len(s))

\* Series.mean(): skipna, NaN for a series with no defined entry
mean(s) ==
    LET c == dropna(s)
    IN  Div(SumRange(c, 1, Len(c)), Flt(Len(c)))

RECURSIVE SumSqDev(_, _, _)
SumSqDev(s, m, i) ==
    IF i = 0 THEN Zero
    ELSE Add(SumSqDev(s, m, i - 1), Mul(Sub(s[i], m), Sub(s[i], m)))

\* the square of Series.std() (ddof = 1): NaN for fewer than two defined entries
variance(s) ==
    LET c == dropna(s)
    IN  IF Len(c) < 2 THEN NaN
        ELSE Div(SumSqDev(c, mean(c), Len(c)), Flt(Len(c) - 1))

(* ------------------------------ frames -------------------------------- *)
NoColumns == [c \in {} |-> << >>]

\* pd.DataFrame(): no rows and no columns
EmptyDataFrame == [n |-> 0, col |-> NoColumns]

HasCol(df, c) == c \in DOMAIN df.col

\* df[c] = s
SetCol(df, c, s) == [n |-> df.n, col |-> (c :> s) @@ df.col]

\* df.empty
IsEmpty(df) == df.n = 0 \/ DOMAIN df.col = {}

\* df = data, with no copy: a second name for the caller's own object
SameObject(df) == [frame |-> df, shares |-> TRUE]

\* df.copy(): a new object, so that what is written under the new name does
\* not reach the object it was copied from
copy(df) == [frame |-> df, shares |-> FALSE]

\* the frame an object holds after `written` has become the frame under the
\* name bound to it or to its copy
Original(binding, before, written) ==
    IF binding.shares THEN written ELSE before

\* what a call yields: a value, or the exception it raised
Return(v) == [raised |-> "none", value |-> <<v>>]
Raise(e) == [raised |-> e, value |-> << >>]

(* ----------------------------- strategies ----------------------------- *)
Signals == {Flt(-1), Zero, One}

\* the labels the other way round: sell above, buy below
SignalOfContrarian(short, long) ==
    IF Gt(short, long) THEN Flt(-1)
    ELSE IF Lt(short, long) THEN One
    ELSE Zero

\* strategies/moving_average.py: the labels of df.loc[cond, 'Signal'] = v
SignalOf(short, long) ==
    IF Gt(short, long) THEN One
    ELSE IF Lt(short, long) THEN Flt(-1)
    ELSE Zero

\* df['SMA_short'] = df['Adj Close'].rolling(window=short_window).mean()
WithSmaShort(df, short_window) ==
    SetCol(df, "SMA_short", rolling_mean(df.col["Adj Close"], short_window))

\* df['SMA_long'] = df['Adj Close'].rolling(window=long_window).mean()
WithSmaLong(df, long_window) ==
    SetCol(df, "SMA_long", rolling_mean(df.col["Adj Close"], long_window))

\* df['Signal'] = 0, then the two df.loc[...] assignments
WithSignal(df) ==
    SetCol(df, "Signal",
           Series([i \in 1..df.n |->
                     SignalOf(df.col["SMA_short"][i], df.col["SMA_long"][i])]))

sma_crossover(data, short_window, long_window) ==
    IF ~HasCol(data, "Adj Close") THEN Raise("KeyError")
    ELSE Return(WithSignal(WithSmaLong(WithSmaShort(copy(data).frame,
                                                    short_window),
                                       long_window)))

\* a strategy that follows strategies/strategy_template.py: a copy of the
\* data with a Signal column, whose values the strategy's own logic sets
strategy_template(data, signals) ==
    Return(SetCol(copy(data).frame, "Signal",
                  Series([i \in 1..data.n |-> signals[i]])))

\* the strategy_func and **kwargs handed to backtest
SmaStrategy(sw, lw) ==
    [name |-> "sma_crossover", short_window |-> sw, long_window |-> lw,
     signals |-> << >>]

CustomStrategy(sig) ==
    [name |-> "custom", short_window |-> 0, long_window |-> 0, signals |-> sig]

\* strategy_func(data, **kwargs)
strategy_func(strategy, data) ==
    IF strategy.name = "sma_crossover"
    THEN sma_crossover(data, strategy.short_window, strategy.long_window)
    ELSE strategy_template(data, strategy.signals)

\* the caller's frame once strategy_func(data, **kwargs) has returned or
\* raised: sma_crossover raises before its first write
DataAfterStrategy(strategy, data) ==
    Original(copy(data), data,
             IF strategy_func(strategy, data).raised # "none" THEN data
             ELSE strategy_func(strategy, data).value[1])

(* ----------------------------- backtester ----------------------------- *)
Hundred == 100

max_drawdown(equity) ==
    LET roll_max == cummax(equity)
        drawdown == SSub(SDivS(equity, roll_max), One)
    IN  Mul(smin(drawdown), Flt(Hundred))

\* df['Position'] = df['Signal'] : the signal traded on its own bar
WithPositionUnlagged(df) == SetCol(df, "Position", df.col["Signal"])

\* df['Position'] = df['Signal'].shift(1).fillna(0)
WithPosition(df) ==
    SetCol(df, "Position", fillna(shift(df.col["Signal"]), Zero))

\* df['Market_Return'] = df['Close'].pct_change()
WithMarketReturn(df) ==
    SetCol(df, "Market_Return", pct_change(df.col["Close"]))

\* df['Strategy_Return'] = df['Market_Return'] * df['Position']
WithStrategyReturn(df) ==
    SetCol(df, "Strategy_Return",
           SMulS(df.col["Market_Return"], df.col["Position"]))

\* df['Equity'] = (1 + df['Strategy_Return']).cumprod() * initial_capital
WithEquity(df, initial_capital) ==
    SetCol(df, "Equity",
           SMul(cumprod(SAdd(df.col["Strategy_Return"], One)),
                Flt(initial_capital)))

\* the results dict; Series.iloc[-1] raises IndexError on an empty series
Results(df, initial_capital) ==
    IF df.n = 0 THEN Raise("IndexError")
    ELSE Return(
           [results |->
              [Final_Capital |-> df.col["Equity"][df.n],
               Total_Return |->
                   Mul(Sub(Div(df.col["Equity"][df.n], Flt(initial_capital)), One),
                       Flt(Hundred)),
               Max_Drawdown |-> max_drawdown(df.col["Equity"]),
               Equity_Curve |-> df.col["Equity"]],
            df |-> df])

\* the body of backtest once strategy_func has returned or raised
BacktestOn(s, initial_capital) ==
    IF s.raised # "none" THEN Raise(s.raised)
    ELSE IF ~HasCol(s.value[1], "Close") THEN Raise("KeyError")
    ELSE Results(WithEquity(WithStrategyReturn(WithMarketReturn(
                     WithPosition(copy(s.value[1]).frame))), initial_capital),
                 initial_capital)

\* the frame under backtest's df when backtest returns or raises
BacktestWritten(s, initial_capital) ==
    IF ~HasCol(s.value[1], "Close") THEN WithPosition(copy(s.value[1]).frame)
    ELSE WithEquity(WithStrategyReturn(WithMarketReturn(
             WithPosition(copy(s.value[1]).frame))), initial_capital)

\* the frame strategy_func returned, once backtest has written to its df
StrategyFrameAfter(s, initial_capital) ==
    Original(copy(s.value[1]), s.value[1], BacktestWritten(s, initial_capital))

backtest(data, strategy, initial_capital) ==
    BacktestOn(strategy_func(strategy, data), initial_capital)

\* the caller's frame once backtest(data, strategy_func, ...) has returned
\* or raised
DataAfterBacktest(data, strategy, initial_capital) ==
    Original(copy(data), data,
             IF strategy_func(strategy, data).raised # "none" THEN data
             ELSE StrategyFrameAfter(strategy_func(strategy, data),
                                     initial_capital))

(* ------------------------------ metrics ------------------------------- *)
TradingDays == 252
RiskFreeNum == 2
RiskFreeDen == 100

\* A CAGR is kept as the terms of ((base) ** (TradingDays / n_days) - 1) * 100:
\* kind "zero" is the early return 0
calculate_cagr(equity_series) ==
    IF Len(equity_series) < 2 THEN [kind |-> "zero", base |-> One, n_days |-> 0]
    ELSE
      LET initial_value == equity_series[1]
          final_value == equity_series[Len(equity_series)]
          n_days == Len(equity_series)
      IN  IF n_days = 0 \/ Eq(initial_value, Zero)
          THEN [kind |-> "zero", base |-> One, n_days |-> 0]
          ELSE [kind |-> "pow", base |-> Div(final_value, initial_value),
                n_days |-> n_days]

\* an undefined first or last value makes the base, and so the CAGR, NaN
\* (the power of a negative base is left unevaluated)
CagrIsNaN(c) == c.kind = "pow" /\ IsNaN(c.base)

\* A Sharpe ratio is kept as the terms of num / sqrt(den_sq):
\* kind "zero" is the early return 0
calculate_sharpe(returns) ==
    LET returns_clean == dropna(returns)
    IN
    IF Len(returns_clean) = 0 THEN [kind |-> "zero", num |-> Zero, den_sq |-> One]
    ELSE
      LET mean_return == Mul(mean(returns_clean), Flt(TradingDays))
          var_return == Mul(variance(returns_clean), Flt(TradingDays))
      IN  IF Eq(var_return, Zero)
          THEN [kind |-> "zero", num |-> Zero, den_sq |-> One]
          ELSE [kind |-> "ratio",
                num |-> Sub(mean_return, Norm(RiskFreeNum, RiskFreeDen)),
                den_sq |-> var_return]

calculate_max_drawdown(equity_series) ==
    IF Len(equity_series) < 2 THEN Zero
    ELSE
      LET running_max == cummax(equity_series)
          drawdown == SDivS(SSubS(equity_series, running_max), running_max)
      IN  Mul(smin(drawdown), Flt(Hundred))

\* returns_clean[returns_clean < target_return]
Below(returns, target_return) == SelectSeq(returns, LAMBDA x : Lt(x, target_return))

\* A Sortino ratio is kept as the terms of num / sqrt(den_sq): kind "zero" is
\* the early return 0, kind "inf" the return np.inf
calculate_sortino(returns, target_return) ==
    IF Len(dropna(returns)) = 0
    THEN [kind |-> "zero", num |-> Zero, den_sq |-> One]
    ELSE IF Len(Below(dropna(returns), target_return)) = 0
    THEN [kind |-> "inf", num |-> Zero, den_sq |-> Zero]
    ELSE IF Eq(Mul(variance(Below(dropna(returns), target_return)),
                   Flt(TradingDays)), Zero)
    THEN [kind |-> "inf", num |-> Zero, den_sq |-> Zero]
    ELSE [kind |-> "ratio",
          num |-> Sub(Mul(mean(dropna(returns)), Flt(TradingDays)),
                      Norm(RiskFreeNum, RiskFreeDen)),
          den_sq |-> Mul(variance(Below(dropna(returns), target_return)),
                         Flt(TradingDays))]

\* (returns > 0).sum()
WinningTrades(returns) == Len(SelectSeq(returns, LAMBDA x : Gt(x, Zero)))

\* a denominator that counts every defined return, the flat ones too
TotalTradesAll(returns) == Len(returns)

\* len(returns[returns != 0])
TotalTrades(returns) == Len(SelectSeq(returns, LAMBDA x : x # Zero))

calculate_win_rate(returns) ==
    IF Len(dropna(returns)) = 0 THEN Zero
    ELSE IF TotalTrades(dropna(returns)) = 0 THEN Zero
    ELSE Mul(Norm(WinningTrades(dropna(returns)), TotalTrades(dropna(returns))),
             Flt(Hundred))

(* -------------------------------- app --------------------------------- *)
\* abs(x)
FAbs(x) == <<Abs(x[1]), x[2]>>

\* Series.sum(): 0 for a series with no entry
ssum(s) == SumRange(s, 1, Len(s))

\* returns[returns > 0] and returns[returns < 0]
Wins(returns) == SelectSeq(returns, LAMBDA x : Gt(x, Zero))
Losses(returns) == SelectSeq(returns, LAMBDA x : Lt(x, Zero))

\* the metrics dict of the returns = Strategy_Return.dropna(); Volatility is
\* kept as its square, (std * sqrt(252) * 100) ** 2
AdditionalMetrics(returns) ==
    [Win_Rate |->
        IF TotalTrades(returns) > 0
        THEN Mul(Norm(WinningTrades(returns), TotalTrades(returns)), Flt(Hundred))
        ELSE Zero,
     Avg_Win |->
        IF Len(Wins(returns)) > 0 THEN Mul(mean(Wins(returns)), Flt(Hundred))
        ELSE Zero,
     Avg_Loss |->
        IF Len(Losses(returns)) > 0 THEN Mul(mean(Losses(returns)), Flt(Hundred))
        ELSE Zero,
     Profit_Factor |->
        IF Gt(FAbs(ssum(Losses(returns))), Zero)
        THEN Div(ssum(Wins(returns)), FAbs(ssum(Losses(returns))))
        ELSE Inf,
     Volatility_sq |->
        Mul(variance(returns), Flt(TradingDays * Hundred * Hundred))]

calculate_additional_metrics(df_with_signals) ==
    IF {"Strategy_Return", "Equity"} \subseteq DOMAIN df_with_signals.col
    THEN Return(AdditionalMetrics(dropna(df_with_signals.col["Strategy_Return"])))
    ELSE Raise("KeyError")

\* f'SMA_{window}'
SmaColumn(window) == "SMA_" \o ToString(window)

\* the columns create_equity_curve_plot reads
EquityPlotColumns == {"Date", "Equity", "Close"}

create_equity_curve_plot(df) ==
    IF EquityPlotColumns \subseteq DOMAIN df.col THEN Return("fig")
    ELSE Raise("KeyError")

\* the columns create_price_signals_plot reads on every path
PricePlotColumns(short_window, long_window) ==
    {"Date", "Close", SmaColumn(short_window), SmaColumn(long_window), "Volume"}

create_price_signals_plot(df, short_window, long_window) ==
    IF PricePlotColumns(short_window, long_window) \subseteq DOMAIN df.col
    THEN Return("fig")
    ELSE Raise("KeyError")

\* run_backtest_ui: (results, df_with_signals), or (None, None) with an
\* st.error; every exception of backtest is caught
run_backtest_ui(df, short_window, long_window, initial_capital) ==
    IF IsEmpty(df) THEN [error |-> <<"No data available">>, value |-> << >>]
    ELSE IF backtest(df, SmaStrategy(short_window, long_window),
                     initial_capital).raised # "none"
    THEN [error |-> <<"Error running backtest">>, value |-> << >>]
    ELSE [error |-> << >>,
          value |-> backtest(df, SmaStrategy(short_window, long_window),
                             initial_capital).value]

(* ---------------------------- data handler ---------------------------- *)
\* f"{ticker}_{interval}_{start}_{end}.csv"
filename(key) ==
    key.ticker \o "_" \o key.interval \o "_" \o key.start \o "_" \o key.end
        \o ".csv"

\* df.to_csv(filepath, index=False): a header line and one line per row
to_csv(df) ==
    [header |-> DOMAIN df.col,
     lines |-> Series([i \in 1..df.n |-> [c \in DOMAIN df.col |-> df.col[c][i]]])]

\* pd.read_csv(filepath, parse_dates=["Date"])
read_csv(csv) ==
    [n |-> Len(csv.lines),
     col |-> [c \in csv.header |->
                Series([i \in 1..Len(csv.lines) |-> csv.lines[i][c]])]]

NoFiles == [f \in {} |-> to_csv(EmptyDataFrame)]

\* os.path.exists(filepath)
Exists(fs, key) == filename(key) \in DOMAIN fs

\* save whatever was fetched, the empty frame too
ShouldSaveAlways(df) == TRUE

\* if not df.empty: save_data(...)
ShouldSave(df) == ~IsEmpty(df)

\* save_data: writes the file of the key
save_data(fs, df, key) == (filename(key) :> to_csv(df)) @@ fs

\* DATA_DIR once load_data has returned after fetch_data yielded `fetched`
FilesAfterFetch(fs, key, fetched) ==
    IF fetched.raised # "none" THEN fs
    ELSE IF ShouldSave(fetched.value[1]) THEN save_data(fs, fetched.value[1], key)
    ELSE fs

\* load_data: its result and DATA_DIR afterwards; fetch_data is called only
\* when the file of the key does not exist, and then yields `fetched`
load_data(fs, key, fetched) ==
    IF Exists(fs, key)
    THEN [raised |-> "none", value |-> <<read_csv(fs[filename(key)])>>,
          files |-> fs, fetch |-> << >>,
          printed |-> <<"[Info] Loading cached data">>]
    ELSE [raised |-> fetched.raised, value |-> fetched.value,
          files |-> FilesAfterFetch(fs, key, fetched), fetch |-> <<fetched>>,
          printed |-> <<"[Info] Fetching new data">>]

\* DATA_DIR after load_data(key) has returned df to its caller
CacheAfterLoad(key, df) ==
    IF ShouldSave(df) THEN save_data(NoFiles, df, key) ELSE NoFiles

(* ------------------------------- state -------------------------------- *)
VARIABLES
    data,      \* the price frame the caller holds (what load_data returned)
    series,    \* the series a metric function is called on
    op,        \* the operation that has run, "none" before it
    args,      \* the arguments it ran with
    raised,    \* the exception that left the operation, "none" without one
    results,   \* << >>, or <<the results dict backtest returned>>
    frame,     \* << >>, or <<the frame sma_crossover / backtest returned>>
    value,     \* << >>, or <<the number a metric function returned>>
    metrics,   \* << >>, or <<the CAGR and Sharpe run_backtest / the app derived>>
    shown,     \* what the operation printed or rendered, in order
    files,     \* DATA_DIR: the cached csv files, by filename
    calls      \* the load_data calls made so far, in order

vars ==
    <<data, series, op, args, raised, results, frame, value, metrics, shown,
      files, calls>>

(* ------------------------------- inputs ------------------------------- *)
\* data_handler.fetch_data: required_cols
PriceColumns == {"Date", "Open", "High", "Low", "Close", "Adj Close", "Volume"}

\* one bar: a positive close and an adjusted close at or below it
Bars == {b \in (1..MaxPrice) \X (1..MaxPrice) : b[2] = b[1] \/ b[2] = b[1] - 1}

RECURSIVE SeqsUpTo(_, _)
SeqsUpTo(S, n) ==
    IF n = 0 THEN {<< >>}
    ELSE LET shorter == SeqsUpTo(S, n - 1)
         IN  shorter \cup {Append(q, x) : q \in {r \in shorter : Len(r) = n - 1}, x \in S}

SeqsOfLen(S, n) == {q \in SeqsUpTo(S, n) : Len(q) = n}

\* the frame of a sequence of bars, dates ascending
PriceFrame(bars) ==
    [n |-> Len(bars),
     col |-> [c \in PriceColumns |->
                Series([i \in 1..Len(bars) |->
                          CASE c = "Date" -> Flt(i)
                            [] c = "Adj Close" -> Flt(bars[i][2])
                            [] c = "Volume" -> Zero
                            [] OTHER -> Flt(bars[i][1])])]]

Frames == {EmptyDataFrame} \cup {PriceFrame(b) : b \in SeqsUpTo(Bars, MaxLen)}

\* bars of a rising market: close and adjusted close up to MaxTrendPrice
TrendBars ==
    {b \in (1..MaxTrendPrice) \X (1..MaxTrendPrice) :
        b[2] = b[1] \/ b[2] = b[1] - 1}

\* b continues the sequence of bars q with a higher close and adjusted close
Higher(q, b) ==
    q = << >> \/ (b[1] > q[Len(q)][1] /\ b[2] > q[Len(q)][2])

RECURSIVE RisingUpTo(_)
RisingUpTo(n) ==
    IF n = 0 THEN {<< >>}
    ELSE RisingUpTo(n - 1)
           \cup {Append(e[1], e[2]) :
                   e \in {pr \in RisingUpTo(n - 1) \X TrendBars :
                             Len(pr[1]) = n - 1 /\ Higher(pr[1], pr[2])}}

\* the price frames whose close and adjusted close rise on every bar
RisingFrames == {PriceFrame(b) : b \in RisingUpTo(MaxTrendLen) \ {<< >>}}

\* main.py: the defaults of --ticker, --start, --end and the "1d" of run_backtest
DefaultKey ==
    [ticker |-> "MSFT", interval |-> "1d", start |-> "2015-01-01",
     end |-> "2024-12-31"]

\* the keys load_data is called with: the default one, and those that
\* differ from it in the ticker or in the interval
Tickers == {"MSFT", "AAPL"}
Intervals == {"1d", "1h"}
Keys ==
    {[DefaultKey EXCEPT !.ticker = t] : t \in Tickers}
        \cup {[DefaultKey EXCEPT !.interval = i] : i \in Intervals}

\* what fetch_data can yield: no data, a frame of no rows or one row, or
\* the ValueError of a missing column
FetchOutcomes ==
    {Return(f) : f \in {g \in Frames : g.n <= 1}} \cup {Raise("ValueError")}

\* the entries of a series handed to a metric function
SeriesValues == {NaN} \cup {Norm(k, 2) : k \in (-MaxK)..MaxK}
SeriesInputs == SeqsUpTo(SeriesValues, MaxLen)

Windows == 1..MaxWindow

\* app.py: number_input("Initial Capital ($)", min_value=1000, step=1000)
CapitalStep == 1000
Capitals == {CapitalStep, 2 * CapitalStep}

\* app.py: sample points of the two window sliders (5..100 step 5, 50..300 step 10)
AppShortWindows == {5, 50, 60}
AppLongWindows == {50, 60}

NoArgs ==
    [short_window |-> 0, long_window |-> 0, initial_capital |-> 0,
     strategy |-> "none", run_button |-> FALSE, target_return |-> Zero]

\* nothing has run yet
Fresh ==
    /\ op = "none"
    /\ args = NoArgs
    /\ raised = "none"
    /\ results = << >>
    /\ frame = << >>
    /\ value = << >>
    /\ metrics = << >>
    /\ shown = << >>
    /\ calls = << >>

\* the backtesting pipeline, started on a price frame
Init ==
    /\ data \in Frames
    /\ files = CacheAfterLoad(DefaultKey, data)
    /\ series = << >>
    /\ Fresh

\* the backtesting pipeline, started on a rising price frame
InitTrend ==
    /\ data \in RisingFrames
    /\ files = CacheAfterLoad(DefaultKey, data)
    /\ series = << >>
    /\ Fresh

\* the metric functions, called on a series
InitMetrics ==
    /\ data = EmptyDataFrame
    /\ files = NoFiles
    /\ series \in SeriesInputs
    /\ Fresh

\* the data handler, started on an empty DATA_DIR
InitCache ==
    /\ data = EmptyDataFrame
    /\ files = NoFiles
    /\ series = << >>
    /\ Fresh

(* ------------------------------ actions ------------------------------- *)
\* a direct call sma_crossover(data, short_window, long_window)
SmaCrossover ==
    \E sw \in Windows, lw \in Windows :
        LET r == sma_crossover(data, sw, lw)
        IN  /\ op = "none"
            /\ op' = "sma_crossover"
            /\ args' = [NoArgs EXCEPT !.short_window = sw, !.long_window = lw,
                                      !.strategy = "sma_crossover"]
            /\ raised' = r.raised
            /\ frame' = r.value
            /\ data' = DataAfterStrategy(SmaStrategy(sw, lw), data)
            /\ UNCHANGED <<files, calls, series, results, value, metrics, shown>>

\* a direct call backtest(data, strategy_func, initial_capital, **kwargs)
BacktestWith(strategy, cap) ==
    LET r == backtest(data, strategy, cap)
    IN  /\ op = "none"
        /\ op' = "backtest"
        /\ args' = [NoArgs EXCEPT !.short_window = strategy.short_window,
                                  !.long_window = strategy.long_window,
                                  !.initial_capital = cap,
                                  !.strategy = strategy.name]
        /\ raised' = r.raised
        /\ results' = IF r.raised = "none" THEN <<r.value[1].results>> ELSE << >>
        /\ frame' = IF r.raised = "none" THEN <<r.value[1].df>> ELSE << >>
        /\ data' = DataAfterBacktest(data, strategy, cap)
        /\ UNCHANGED <<files, calls, series, value, metrics, shown>>

BacktestSma ==
    \E sw \in Windows, lw \in Windows, cap \in Capitals :
        BacktestWith(SmaStrategy(sw, lw), cap)

BacktestCustom ==
    \E sig \in SeqsOfLen(Signals, data.n) :
        BacktestWith(CustomStrategy(sig), CapitalStep)

\* main.py: run_backtest(ticker, start, end, short_window, long_window, initial_capital)
RunBacktest ==
    \E sw \in Windows, lw \in Windows, cap \in Capitals :
        /\ op = "none"
        /\ op' = "run_backtest"
        /\ args' = [NoArgs EXCEPT !.short_window = sw, !.long_window = lw,
                                  !.initial_capital = cap,
                                  !.strategy = "sma_crossover"]
        /\ IF IsEmpty(data)
           THEN /\ shown' = <<"[Error] No data">>
                /\ UNCHANGED <<raised, results, frame, metrics>>
           ELSE LET r == backtest(data, SmaStrategy(sw, lw), cap)
                IN  IF r.raised # "none"
                    THEN /\ raised' = r.raised
                         /\ UNCHANGED <<results, frame, metrics, shown>>
                    ELSE /\ results' = <<r.value[1].results>>
                         /\ frame' = <<r.value[1].df>>
                         /\ metrics' =
                              <<[cagr |-> calculate_cagr(r.value[1].df.col["Equity"]),
                                 sharpe |-> calculate_sharpe(
                                              r.value[1].df.col["Strategy_Return"])]>>
                         /\ shown' = <<"Backtest Results", "plot_equity_curve",
                                       "plot_signals">>
                         /\ UNCHANGED raised
        /\ data' = IF IsEmpty(data) THEN data
                   ELSE DataAfterBacktest(data, SmaStrategy(sw, lw), cap)
        /\ UNCHANGED <<files, calls, series, value>>

\* app.py: one run of main() with the sidebar inputs sw, lw, cap and the button
SidebarErrors(sw, lw) ==
    IF sw >= lw THEN <<"Short window must be less than long window!">> ELSE << >>

\* the charts section of main(), up to the first exception
Charts(df, sw, lw) ==
    IF create_equity_curve_plot(df).raised # "none"
    THEN [raised |-> create_equity_curve_plot(df).raised, shown |-> << >>]
    ELSE IF create_price_signals_plot(df, sw, lw).raised # "none"
    THEN [raised |-> create_price_signals_plot(df, sw, lw).raised,
          shown |-> <<"Equity Curve">>]
    ELSE [raised |-> "none",
          shown |-> <<"Equity Curve", "Price Chart with Signals",
                      "Returns Distribution", "View Raw Data">>]

AppMainRun(sw, lw, cap) ==
    LET r == run_backtest_ui(data, sw, lw, cap)
    IN  IF r.value = << >>
        THEN /\ shown' = SidebarErrors(sw, lw) \o r.error
             /\ UNCHANGED <<raised, results, frame, metrics>>
        ELSE /\ results' = <<r.value[1].results>>
             /\ frame' = <<r.value[1].df>>
             /\ metrics' =
                  <<[cagr |-> calculate_cagr(r.value[1].df.col["Equity"]),
                     sharpe |-> calculate_sharpe(
                                  r.value[1].df.col["Strategy_Return"]),
                     additional_metrics |->
                         calculate_additional_metrics(r.value[1].df).value[1]]>>
             /\ raised' = Charts(r.value[1].df, sw, lw).raised
             /\ shown' = SidebarErrors(sw, lw)
                           \o <<"Performance Summary", "Detailed Metrics">>
                           \o Charts(r.value[1].df, sw, lw).shown

AppMain ==
    \E sw \in AppShortWindows, lw \in AppLongWindows, cap \in Capitals,
       run_button \in BOOLEAN :
        /\ op = "none"
        /\ op' = "app"
        /\ args' = [NoArgs EXCEPT !.short_window = sw, !.long_window = lw,
                                  !.initial_capital = cap,
                                  !.strategy = "sma_crossover",
                                  !.run_button = run_button]
        /\ IF run_button /\ sw < lw
           THEN AppMainRun(sw, lw, cap)
           ELSE /\ shown' = SidebarErrors(sw, lw)
                             \o (IF ~run_button THEN <<"Welcome">> ELSE << >>)
                /\ UNCHANGED <<raised, results, frame, metrics>>
        /\ data' = IF run_button /\ sw < lw /\ ~IsEmpty(data)
                   THEN DataAfterBacktest(data, SmaStrategy(sw, lw), cap)
                   ELSE data
        /\ UNCHANGED <<files, calls, series, value>>

\* calls of the drawdown and metric functions on a series
CallMaxDrawdown ==
    /\ op = "none"
    /\ op' = "max_drawdown"
    /\ value' = <<max_drawdown(series)>>
    /\ UNCHANGED <<files, calls, data, series, args, raised, results, frame, metrics, shown>>

CallCalculateMaxDrawdown ==
    /\ op = "none"
    /\ op' = "calculate_max_drawdown"
    /\ value' = <<calculate_max_drawdown(series)>>
    /\ UNCHANGED <<files, calls, data, series, args, raised, results, frame, metrics, shown>>

CallCalculateCagr ==
    /\ op = "none"
    /\ op' = "calculate_cagr"
    /\ value' = <<calculate_cagr(series)>>
    /\ UNCHANGED <<files, calls, data, series, args, raised, results, frame, metrics, shown>>

CallCalculateSharpe ==
    /\ op = "none"
    /\ op' = "calculate_sharpe"
    /\ value' = <<calculate_sharpe(series)>>
    /\ UNCHANGED <<files, calls, data, series, args, raised, results, frame, metrics, shown>>

\* the target_return a caller passes to calculate_sortino (default 0)
Targets == {Zero, Norm(1, 2)}

CallCalculateSortino ==
    \E target \in Targets :
        /\ op = "none"
        /\ op' = "calculate_sortino"
        /\ args' = [NoArgs EXCEPT !.target_return = target]
        /\ value' = <<calculate_sortino(series, target)>>
        /\ UNCHANGED <<files, calls, data, series, raised, results, frame, metrics, shown>>

CallCalculateWinRate ==
    /\ op = "none"
    /\ op' = "calculate_win_rate"
    /\ value' = <<calculate_win_rate(series)>>
    /\ UNCHANGED <<files, calls, data, series, args, raised, results, frame, metrics, shown>>

\* app.calculate_additional_metrics on a frame whose Strategy_Return is the series
CallCalculateAdditionalMetrics ==
    /\ op = "none"
    /\ op' = "calculate_additional_metrics"
    /\ value' = calculate_additional_metrics(
                    [n |-> Len(series),
                     col |-> [c \in {"Strategy_Return", "Equity"} |-> series]]).value
    /\ UNCHANGED <<files, calls, data, series, args, raised, results, frame, metrics, shown>>

Next ==
    \/ SmaCrossover
    \/ BacktestSma
    \/ BacktestCustom
    \/ RunBacktest
    \/ AppMain

Spec == Init /\ [][Next]_vars

\* the crossover strategy, run on a rising market
NextTrend ==
    \/ SmaCrossover
    \/ BacktestSma
    \/ RunBacktest
    \/ AppMain

SpecTrend == InitTrend /\ [][NextTrend]_vars

\* data_handler.load_data(ticker, start, end, interval)
LoadData ==
    \E key \in Keys, fetched \in FetchOutcomes :
        /\ Len(calls) < MaxCalls
        /\ op' = "load_data"
        /\ raised' = load_data(files, key, fetched).raised
        /\ data' = IF load_data(files, key, fetched).raised = "none"
                   THEN load_data(files, key, fetched).value[1]
                   ELSE data
        /\ files' = load_data(files, key, fetched).files
        /\ shown' = load_data(files, key, fetched).printed
        /\ calls' = Append(calls, [key |-> key,
                                   fetch |-> load_data(files, key, fetched).fetch])
        /\ UNCHANGED <<series, args, results, frame, value, metrics>>

NextCache == LoadData

SpecCache == InitCache /\ [][NextCache]_vars

NextMetrics ==
    \/ CallMaxDrawdown
    \/ CallCalculateMaxDrawdown
    \/ CallCalculateCagr
    \/ CallCalculateSharpe
    \/ CallCalculateSortino
    \/ CallCalculateWinRate
    \/ CallCalculateAdditionalMetrics

SpecMetrics == InitMetrics /\ [][NextMetrics]_vars

(* ------------------------------- claims ------------------------------- *)
\* backtest has returned its (results, df) pair, directly or to a caller
BacktestReturned == op \in {"backtest", "run_backtest", "app"} /\ frame # << >>

\* a column of the returned frame, and the number of its rows
Col(c) == frame[1].col[c]
Rows == frame[1].n

\* C1: for every non-empty price series, every strategy and every
\* initial_capital > 0, the Equity of the first bar of the frame backtest
\* returns equals initial_capital exactly.
C1_EquityStartsAtCapital ==
    BacktestReturned => Eq(Col("Equity")[1], Flt(args.initial_capital))

\* the simple percentage change of a price column of the input at bar t >= 2
PctChangeAt(c, t) ==
    Sub(Div(data.col[c][t], data.col[c][t - 1]), One)

\* C2: Position is the Signal lagged by exactly one bar: Position[0] = 0 and
\* Position[t] = Signal[t-1] for every later bar, so that the strategy return
\* of bar t is the market return of bar t times the signal of bar t-1, never
\* the signal of bar t.
C2_PositionLagsSignal ==
    BacktestReturned =>
        /\ Col("Position")[1] = Zero
        /\ \A t \in 2..Rows :
            /\ Col("Position")[t] = Col("Signal")[t - 1]
            /\ Col("Strategy_Return")[t]
                 = Mul(PctChangeAt("Close", t), Col("Signal")[t - 1])

\* C2 witness: a backtest whose signal changes at a bar t and whose position
\* and strategy return at t still follow the signal of bar t-1
C2_Witness ==
    /\ BacktestReturned
    /\ \E t \in 2..Rows :
        /\ Col("Signal")[t] # Col("Signal")[t - 1]
        /\ Col("Signal")[t - 1] # Zero
        /\ Col("Position")[t] = Col("Signal")[t - 1]
        /\ Col("Strategy_Return")[t] # Zero

\* the sum of the w adjusted closes of the input ending at bar t
RECURSIVE AdjSum(_, _)
AdjSum(t, w) ==
    IF w = 0 THEN 0 ELSE data.col["Adj Close"][t][1] + AdjSum(t - 1, w - 1)

\* the signal the crossover rule asks for at bar t, by cross-multiplication
ExpectedSignal(t, sw, lw) ==
    IF t < sw \/ t < lw THEN Zero
    ELSE IF AdjSum(t, sw) * lw > AdjSum(t, lw) * sw THEN One
    ELSE IF AdjSum(t, sw) * lw < AdjSum(t, lw) * sw THEN Flt(-1)
    ELSE Zero

\* sma_crossover has returned a frame, called directly or through backtest
SmaReturned ==
    /\ op \in {"sma_crossover", "backtest", "run_backtest", "app"}
    /\ args.strategy = "sma_crossover"
    /\ frame # << >>

\* C3: at every bar sma_crossover sets Signal to +1 when the short average
\* exceeds the long one, -1 when it is smaller, 0 when they are equal and 0
\* when either average is undefined; a price series shorter than long_window
\* gets Signal = 0 on every bar and no error is raised.
C3_SignalRule ==
    /\ SmaReturned =>
         \A t \in 1..Rows :
            Col("Signal")[t] = ExpectedSignal(t, args.short_window, args.long_window)
    /\ (op = "sma_crossover" /\ HasCol(data, "Adj Close")) =>
         /\ raised = "none"
         /\ frame # << >>
         /\ data.n < args.long_window =>
              \A t \in 1..Rows : Col("Signal")[t] = Zero

\* C3 witness: one returned frame that holds a buy, a sell and a bar whose
\* long average is still undefined
C3_Witness ==
    /\ op = "sma_crossover"
    /\ frame # << >>
    /\ \E t \in 1..Rows : Col("Signal")[t] = One
    /\ \E t \in 1..Rows : Col("Signal")[t] = Flt(-1)
    /\ \E t \in 1..Rows : IsNaN(Col("SMA_long")[t]) /\ Col("Signal")[t] = Zero

\* C4: market_return[t] is the simple percentage change of the adjusted
\* close, the column the moving averages are computed from, also when Close
\* and Adj Close differ.
C4_MarketReturnOfAdjClose ==
    BacktestReturned =>
        \A t \in 2..Rows : Col("Market_Return")[t] = PctChangeAt("Adj Close", t)

\* C5: a backtest on an empty price series fails with EmptySeriesError and
\* returns neither a results summary nor a per-bar frame.
C5_EmptySeriesError ==
    (op \in {"backtest", "run_backtest"} /\ IsEmpty(data)) =>
        /\ raised = "EmptySeriesError"
        /\ results = << >>
        /\ frame = << >>

\* C6: with short_window >= long_window, every entry path raises
\* InvalidParameterError before any average, signal, return or equity value
\* is computed (stated here for the non-empty price series).
C6_InvalidParameterError ==
    (/\ op \in {"sma_crossover", "backtest", "run_backtest", "app"}
     /\ args.strategy = "sma_crossover"
     /\ ~IsEmpty(data)
     /\ args.short_window >= args.long_window) =>
        /\ raised = "InvalidParameterError"
        /\ results = << >>
        /\ frame = << >>

\* equity never falls from one bar to the next
NonDecreasing(equity) ==
    \A t \in 2..Len(equity) : Le(equity[t - 1], equity[t])

\* C7: the max drawdown backtest reports is <= 0, and it is 0 exactly when
\* the equity series is non-decreasing throughout.
C7_DrawdownSign ==
    BacktestReturned =>
        /\ Le(results[1].Max_Drawdown, Zero)
        /\ Eq(results[1].Max_Drawdown, Zero) <=> NonDecreasing(Col("Equity"))

\* C8: a series of fewer than two entries has drawdown 0 through
\* backtester.max_drawdown and through metrics.calculate_max_drawdown, and on
\* longer series the two functions return the same value.
C8_DrawdownOfShortSeries ==
    /\ (op \in {"max_drawdown", "calculate_max_drawdown"} /\ Len(series) < 2) =>
         value[1] = Zero
    /\ (op = "max_drawdown" /\ Len(series) >= 2) =>
         value[1] = calculate_max_drawdown(series)

\* C9: calculate_cagr leaves the undefined entries of an equity series out
\* and returns a defined number computed from the first and last defined
\* values; run_backtest and the app get such a number for backtest's Equity.
C9_CagrSkipsUndefined ==
    (op \in {"run_backtest", "app"} /\ metrics # << >>) =>
        /\ ~CagrIsNaN(metrics[1].cagr)
        /\ metrics[1].cagr = calculate_cagr(dropna(Col("Equity")))

\* the defined returns of a series are all the same number
Flat(returns) ==
    \A i, j \in 1..Len(returns) : returns[i] = returns[j]

\* the value of a Sharpe ratio kept as its terms is 0
SharpeIsZero(r) ==
    \/ r.kind = "zero"
    \/ r.kind = "ratio" /\ Eq(r.num, Zero) /\ Gt(r.den_sq, Zero)

\* C10: calculate_sharpe returns 0 for a series with no defined return, a
\* flat one and one with exactly one defined return, and otherwise
\* (mean*252 - risk_free_rate) / (std*sqrt(252)).
C10_SharpeZeroCases ==
    op = "calculate_sharpe" =>
        IF Len(dropna(series)) <= 1 \/ Flat(dropna(series))
        THEN SharpeIsZero(value[1])
        ELSE /\ value[1].kind = "ratio"
             /\ value[1].num
                  = Sub(Mul(mean(series), Flt(TradingDays)),
                        Norm(RiskFreeNum, RiskFreeDen))
             /\ value[1].den_sq = Mul(variance(series), Flt(TradingDays))

\* C11: calculate_sortino returns the infinite sentinel whenever, among the
\* defined returns, none is below target_return (also when there is no
\* defined return at all) or the below-target returns have deviation 0
\* (exactly one of them, or all of them equal).
C11_SortinoInfinite ==
    (/\ op = "calculate_sortino"
     /\ Flat(Below(dropna(series), args.target_return))) =>
        value[1].kind = "inf"

\* the number of defined entries of the series whose numerator satisfies P
CountDefined(P(_)) ==
    Cardinality({i \in 1..Len(series) : ~IsNaN(series[i]) /\ P(series[i][1])})

\* count(defined returns > 0) / count(defined returns != 0) * 100, or 0
ExpectedWinRate ==
    IF CountDefined(LAMBDA n : n # 0) = 0 THEN Zero
    ELSE Norm(CountDefined(LAMBDA n : n > 0) * 100, CountDefined(LAMBDA n : n # 0))

\* the win rate the operation returned
WinRateReturned ==
    IF op = "calculate_win_rate" THEN value[1] ELSE value[1].Win_Rate

\* C12: calculate_win_rate, and the app's own win rate, return
\* count(defined returns > 0) / count(defined returns != 0) * 100, return 0
\* when no defined return is nonzero, and the result lies in [0, 100].
C12_WinRate ==
    op \in {"calculate_win_rate", "calculate_additional_metrics"} =>
        /\ WinRateReturned = ExpectedWinRate
        /\ Le(Zero, WinRateReturned)
        /\ Le(WinRateReturned, Flt(100))

\* C12 witness: a series with a flat, a winning and a losing return, whose
\* win rate is 50
C12_Witness ==
    /\ op = "calculate_win_rate"
    /\ \E i \in 1..Len(series) : series[i] = Zero
    /\ \E i \in 1..Len(series) : Gt(series[i], Zero)
    /\ \E i \in 1..Len(series) : Lt(series[i], Zero)
    /\ value[1] = Flt(50)

\* sma_crossover, called directly or by backtest, has returned its frame
SmaCalled ==
    /\ op \in {"sma_crossover", "backtest"}
    /\ args.strategy = "sma_crossover"
    /\ frame # << >>

ConstantPrices ==
    /\ data.n >= 1
    /\ Flat(data.col["Close"])
    /\ Flat(data.col["Adj Close"])

\* the value of a CAGR kept as its terms is 0
CagrIsZero(c) == c.kind = "zero" \/ (c.kind = "pow" /\ c.base = One)

\* backtest has run sma_crossover with short_window < long_window
SmaBacktestReturned ==
    /\ BacktestReturned
    /\ args.strategy = "sma_crossover"
    /\ args.short_window < args.long_window

\* C14: on a constant price series of any length >= 1, with
\* short_window < long_window, backtest with sma_crossover gives Signal = 0,
\* Position = 0 and Strategy_Return = 0 on every bar, Equity equal to
\* initial_capital on every bar, max drawdown 0, CAGR 0 and Sharpe 0.
C14_ConstantPrices ==
    (SmaBacktestReturned /\ ConstantPrices) =>
        /\ \A t \in 1..Rows :
            /\ Col("Signal")[t] = Zero
            /\ Col("Position")[t] = Zero
            /\ Col("Strategy_Return")[t] = Zero
            /\ Col("Equity")[t] = Flt(args.initial_capital)
        /\ results[1].Max_Drawdown = Zero
        /\ metrics # << >> =>
            /\ CagrIsZero(metrics[1].cagr)
            /\ SharpeIsZero(metrics[1].sharpe)

\* initial_capital times the product of 1 + Market_Return[k] * Position[k]
\* over the bars k = 2..t of the returned frame (k = 1..t counted from 0)
RECURSIVE ExpectedEquity(_)
ExpectedEquity(t) ==
    IF t = 1 THEN Flt(args.initial_capital)
    ELSE Mul(ExpectedEquity(t - 1),
             Add(One, Mul(Col("Market_Return")[t], Col("Position")[t])))

\* C15: at every bar after the first, Equity is initial_capital times the
\* product of (1 + Market_Return * Position) over the bars after the first,
\* so the undefined first-bar return counts as factor 1 and leaves no later
\* equity value undefined; Final_Capital is Equity[last] and Total_Return_% is
\* (Equity[last] / initial_capital - 1) * 100.
C15_EquityProduct ==
    BacktestReturned =>
        /\ \A t \in 2..Rows :
            /\ Col("Equity")[t] = ExpectedEquity(t)
            /\ ~IsNaN(Col("Equity")[t])
        /\ results[1].Final_Capital = Col("Equity")[Rows]
        /\ results[1].Total_Return
             = Mul(Sub(Div(Col("Equity")[Rows], Flt(args.initial_capital)), One),
                   Flt(100))

\* C15 witness: a backtest of three bars that gains on one bar and loses on
\* another after the undefined first-bar return, and reports the last equity
C15_Witness ==
    /\ BacktestReturned
    /\ Rows >= 3
    /\ IsNaN(Col("Strategy_Return")[1])
    /\ \E t \in 2..Rows : Gt(Col("Strategy_Return")[t], Zero)
    /\ \E t \in 2..Rows : Lt(Col("Strategy_Return")[t], Zero)
    /\ ~IsNaN(results[1].Final_Capital)
    /\ results[1].Final_Capital # Flt(args.initial_capital)

\* the close and the adjusted close of the input rise on every bar
RisingPrices ==
    /\ data.n >= 1
    /\ \A t \in 2..data.n :
        /\ Lt(data.col["Close"][t - 1], data.col["Close"][t])
        /\ Lt(data.col["Adj Close"][t - 1], data.col["Adj Close"][t])

\* sma_crossover has returned for 1 <= short_window < long_window <= bars
TrendCase ==
    /\ SmaReturned
    /\ RisingPrices
    /\ 1 <= args.short_window
    /\ args.short_window < args.long_window
    /\ args.long_window <= data.n

\* C16: on strictly rising prices with 1 <= short_window < long_window <=
\* number of bars, Signal is +1 from the bar that fills the long window on
\* (bar long_window counted from 1), backtest has Position = +1 and
\* Strategy_Return = Market_Return on every bar after it, and Equity rises
\* strictly over those bars.
C16_RisingPrices ==
    TrendCase =>
        /\ \A t \in args.long_window..Rows : Col("Signal")[t] = One
        /\ BacktestReturned =>
            /\ \A t \in (args.long_window + 1)..Rows :
                /\ Col("Position")[t] = One
                /\ Col("Strategy_Return")[t] = Col("Market_Return")[t]
            /\ \A t, u \in (args.long_window + 1)..Rows :
                t < u => Lt(Col("Equity")[t], Col("Equity")[u])

\* C16 witness: a backtest with two or more bars after the long window has
\* filled, flat before it and with equity above the capital at the end
C16_Witness ==
    /\ TrendCase
    /\ BacktestReturned
    /\ Rows >= args.long_window + 2
    /\ Col("Signal")[args.long_window - 1] = Zero
    /\ Col("Position")[Rows] = One
    /\ Lt(Col("Equity")[Rows - 1], Col("Equity")[Rows])
    /\ Gt(Col("Equity")[Rows - 1], Flt(args.initial_capital))

\* the columns of the returned frame the presentation layer reads
PresentationColumns ==
    {"Date", "Close", "Volume", "Signal", "Position", "Strategy_Return",
     "Equity"}

\* C17: the frame backtest returns for sma_crossover has every column the
\* presentation layer reads, the moving averages under the names
\* create_price_signals_plot looks up (SMA_<short_window>, SMA_<long_window>),
\* so rendering after a successful backtest raises nothing.
C17_FrameHasPlotColumns ==
    (BacktestReturned /\ args.strategy = "sma_crossover") =>
        /\ PresentationColumns \subseteq DOMAIN frame[1].col
        /\ PricePlotColumns(args.short_window, args.long_window)
             \subseteq DOMAIN frame[1].col
        /\ op = "app" => raised = "none"

\* the load_data call a step has just made, and the file of its key
LastCall == calls'[Len(calls')]
LastFile == filename(LastCall.key)

\* fetch_data was called and yielded a non-empty frame
FetchedData(c) ==
    /\ c.fetch # << >>
    /\ c.fetch[1].raised = "none"
    /\ ~IsEmpty(c.fetch[1].value[1])

\* C18: over any sequence of load_data calls, a cache entry appears only for
\* the key of the call, only from a non-empty fetch result, and holds that
\* result; an empty fetch result is never stored; entries never change; a call
\* whose key has an entry returns the stored series without calling
\* fetch_data, and a call whose key has none calls fetch_data.
C18_CacheDiscipline ==
    [][calls' # calls =>
        /\ \A f \in DOMAIN files' \ DOMAIN files :
            /\ f = LastFile
            /\ FetchedData(LastCall)
            /\ read_csv(files'[f]) = LastCall.fetch[1].value[1]
        /\ \A f \in DOMAIN files : f \in DOMAIN files' /\ files'[f] = files[f]
        /\ \A f \in DOMAIN files' : ~IsEmpty(read_csv(files'[f]))
        /\ \A k \in Keys : filename(k) = LastFile => k = LastCall.key
        /\ IF LastFile \in DOMAIN files
           THEN /\ LastCall.fetch = << >>
                /\ raised' = "none"
                /\ data' = read_csv(files[LastFile])
           ELSE /\ LastCall.fetch # << >>
                /\ FetchedData(LastCall) => LastFile \in DOMAIN files'
                /\ ~FetchedData(LastCall) => files' = files
      ]_vars

\* C18 witness: load_data was called three times for one key: the first
\* fetch yielded nothing and stored nothing, the second stored its frame, the
\* third returned that frame without a fetch
C18_Witness ==
    /\ Len(calls) >= 3
    /\ calls[2].key = calls[1].key
    /\ calls[3].key = calls[1].key
    /\ calls[1].fetch # << >>
    /\ ~FetchedData(calls[1])
    /\ FetchedData(calls[2])
    /\ calls[3].fetch = << >>
    /\ data = calls[2].fetch[1].value[1]
    /\ DOMAIN files = {filename(calls[1].key)}

====
